---- MODULE Spec2Model ----
(***************************************************************************)
(* The parallel partial-aggregation engine of the false-sharing benchmarks *)
(* (sum over an array, mismatch count between two matrices, matrix         *)
(* initialisation) and the index shuffle that feeds the randomised modes.  *)
(*                                                                         *)
(*   Spec      one run of a sum / compare mode function, one loop          *)
(*             iteration per step, under every interleaving of the team.   *)
(*   SpecCall  the same mode functions, each phase of a call as one step,  *)
(*             over larger inputs.                                         *)
(*   SpecMatrix   the three modes of the matrix-initialisation program,    *)
(*             one element write per step.                                 *)
(*   SpecShuffle  shuffle_array / shuffle_indices, one swap per step.      *)
(***************************************************************************)
EXTENDS Integers, Sequences, FiniteSets, TLC

(***************************************************************************)
(* Bounds of the model.                                                    *)
(***************************************************************************)
\* largest element count of the interleaving specification
MaxSize == 4
\* largest requested worker count of the interleaving specification
MaxThreads == 3
\* largest stride handed to the strided sum_bad_ma of the interleaving specification
MaxStride == 4
\* width, in bits, of unsigned long in the model
WordBits == 8
\* largest array length of the call-level specification
MaxCallSize == 32
\* largest requested worker count of the call-level specification
MaxCallThreads == 8
\* largest matrix side of the compare program in the call-level specification
MaxSide == 32
\* largest side of the matrix the initialisation program fills
MaxMatrix == 3
\* largest team that runs initialize_matrices
MaxInitThreads == 3
\* the iterations of the fill loop a thread runs without another thread being scheduled
InitBurst == 256
\* largest side and largest thread count of the matrix whose element main reports
MaxReportSide == 20
MaxReportThreads == 4
\* largest array and largest requested thread count of the runs checked for termination
MaxLiveSize == 3
MaxLiveThreads == 2
\* largest length handed to the shuffle
MaxShuffleSize == 4
\* largest value rand() returns in the model
MaxRand == 5
\* largest element count of the specification of main
MaxMainSize == 4
\* largest thread count handed to main
MaxMainThreads == 2

(***************************************************************************)
(* Program constants.                                                      *)
(***************************************************************************)
CACHE_LINE_SIZE == 64
SIZEOF_ULONG == 8
\* main: unsigned long stride = 7
MainStride == 7
\* initialize_matrices: A[i] = i % 100
ValueModulus == 100
\* good_mode, bad_fs_mode, bad_ma_mode: a[i][j] = 17
FillValue == 17
\* initialize_matrices: for (i = 0; i < size; i += 1000)
DiffPeriod == 1000
\* main of the sequential program: sum_strided(array, size, 5)
SeqStride == 5
\* main of the matrix-initialisation program: printf("a[17][17] = %d\n", a[17][17])
ReportIndex == 17
\* what an element of the matrix holds before any thread has written it
UNINITIALISED == -1
\* the status of a process that has not ended
RUNNING == -1
\* the status the shell reports for a process killed by SIGSEGV
SIGNALLED == 139

RECURSIVE Pow2(_)
Pow2(n) == IF n = 0 THEN 1 ELSE 2 * Pow2(n - 1)

\* unsigned long arithmetic wraps modulo 2^WordBits
ULONG_MOD == Pow2(WordBits)

WrapSaturating(x) == IF x >= ULONG_MOD THEN ULONG_MOD - 1 ELSE x

\* unsigned long arithmetic: a result is reduced modulo 2^w
Wrap(x) == x % ULONG_MOD

(***************************************************************************)
(* The programs and their modes (argv[1]).                                 *)
(***************************************************************************)
Files == {"array_sum_memory_access_28", "matrix_init_access_variation_29",
          "array_sum_false_sharing_sim_14", "matrix_compare_memory_modes_31"}

Modes == {"good", "bad-fs", "bad-ma"}

VARIABLES
    file,              \* which program runs
    mode,              \* argv[1]
    size,              \* element count (total_elements in the compare program)
    num_threads,       \* requested worker count (threads)
    team,              \* number of threads the runtime starts for the region
    stride,            \* stride of the strided sum_bad_ma
    array,             \* the dataset (array; A in the compare program)
    B,                 \* the second matrix of the compare program
    shuffled_indices,  \* the permuted index sequence of the randomised modes
    owner,             \* work-sharing loops: the thread each iteration is given to
    partial_sums,      \* the accumulator slots, by byte offset in their block
    pc,                \* position of the calling thread
    wpc,               \* position of each worker of the team
    wi,                \* each worker's loop counter i
    total,             \* total_sum / total_diffs / sum
    ri,                \* loop counter of the aggregation loop
    writers,           \* history: the workers that have written each slot
    visits,            \* history: the positions each worker has touched, in order
    a,                 \* the matrix of the initialisation program
    wj,                \* each worker's inner loop counter
    awrites,           \* history: the workers that wrote each element of a, in order
    si,                \* the shuffle's loop counter i
    oob,               \* history: the shuffle touched a position outside the array
    trace,             \* history: what main and the mode function have done, in order
    status,            \* the exit status of the process, RUNNING until it ends
    nulls,             \* the allocations for which malloc returns NULL
    base               \* the address malloc returned for the accumulator slots

vars == <<file, mode, size, num_threads, team, stride, array, B,
          shuffled_indices, owner, partial_sums, pc, wpc, wi, total, ri,
          writers, visits, a, wj, awrites, si, oob, trace, status, nulls, base>>

\* the state of the matrix-initialisation program and of the shuffle
matrixVars == <<a, wj, awrites>>
shuffleVars == <<si, oob>>

\* the state of main around the mode function
mainVars == <<trace, status, nulls, base>>

inputs == <<file, mode, size, num_threads, team, stride, array, B,
            shuffled_indices, owner>>

\* the arguments a mode function runs with
Args ==
    [file |-> file, mode |-> mode, size |-> size, num_threads |-> num_threads,
     team |-> team, stride |-> stride, array |-> array, B |-> B,
     shuffled_indices |-> shuffled_indices, owner |-> owner]

(***************************************************************************)
(* Which traversal and which accumulator a (file, mode) pair uses.         *)
(***************************************************************************)
\* the compare program counts mismatches, the others add elements
IsCompare(r) == r.file = "matrix_compare_memory_modes_31"

\* worker tid visits i = tid, tid + num_threads, ... and reads (i*stride) % size
IsStrided(r) == r.file = "array_sum_memory_access_28" /\ r.mode = "bad-ma"

\* the iterations are handed out by a work-sharing loop (omp for)
IsWorkShared(r) == r.file = "array_sum_false_sharing_sim_14"

\* each worker computes its own [start, end) from its thread number
IsPartitioned(r) == ~IsStrided(r) /\ ~IsWorkShared(r)

\* the element index comes from shuffled_indices
IsPermuted(r) ==
    /\ r.file \in {"matrix_init_access_variation_29", "matrix_compare_memory_modes_31"}
    /\ r.mode = "bad-ma"

\* the slots are a reduction clause's private copies, one per team member
IsReductionClause(r) == IsWorkShared(r) /\ r.mode # "bad-fs"

\* the slots are unsigned long partial_sums[num_threads], back to back
IsPacked(r) == r.mode = "bad-fs"

(***************************************************************************)
(* Setup done by main before the mode function runs.                       *)
(***************************************************************************)
\* load_array: array[i] = i + 1
load_array(n) == [i \in 0 .. n - 1 |-> Wrap(i + 1)]

\* initialize_matrices, first loop: A[i] = i % 100
initialize_A(n) == [i \in 0 .. n - 1 |-> i % ValueModulus]

DivergesAfterFirstPeriod(i) == i > 0 /\ i % DiffPeriod = 0

\* initialize_matrices, second loop: i = 0, 1000, 2000, ...
Diverges(i) == i % DiffPeriod = 0

\* initialize_matrices, both loops: B[i] = A[i], then every 1000th B[i] = A[i] + 1
initialize_B(n) ==
    [i \in 0 .. n - 1 |->
        IF Diverges(i) THEN Wrap((i % ValueModulus) + 1) ELSE i % ValueModulus]

\* every sequence the shuffle can leave in shuffled_indices
IndexPermutations(n) ==
    {f \in [0 .. n - 1 -> 0 .. n - 1] : \A i, j \in 0 .. n - 1 : f[i] = f[j] => i = j}

\* three of them: the identity, the reversal and a rotation
SamplePermutations(n) ==
    {[i \in 0 .. n - 1 |-> i], [i \in 0 .. n - 1 |-> n - 1 - i],
     [i \in 0 .. n - 1 |-> (i + 1) % n]}

\* two ways a work-sharing loop hands out n iterations to tm threads:
\* contiguous blocks, and round robin
SampleSchedules(n, tm) ==
    {[i \in 0 .. n - 1 |-> i \div ((n + tm - 1) \div tm)],
     [i \in 0 .. n - 1 |-> i % tm]}

(***************************************************************************)
(* The accumulator slots.                                                  *)
(***************************************************************************)
\* sizeof(PaddedSum) = 8 + (CACHE_LINE_SIZE - 8); sizeof(unsigned long)
SlotBytes(r) == IF IsPacked(r) THEN SIZEOF_ULONG ELSE CACHE_LINE_SIZE

SlotOfShared(tid) == 0

\* partial_sums[tid]: the slot thread tid accumulates into
SlotOf(tid) == tid

\* the byte offset of partial_sums[s] in the block malloc returned
SlotOffset(r, s) == s * SlotBytes(r)

SlotOffsets(r) == {SlotOffset(r, s) : s \in 0 .. r.num_threads - 1}

\* for (i = 0; i < num_threads; i++) partial_sums[i] = 0
ZeroSlots(r) == [o \in SlotOffsets(r) |-> 0]

SlotReadAsPacked(r, slots, i) ==
    IF i * SIZEOF_ULONG \in DOMAIN slots THEN slots[i * SIZEOF_ULONG] ELSE 0

\* partial_sums[i].sum, partial_sums[i]: the value the aggregation loop reads
SlotRead(r, slots, i) == slots[SlotOffset(r, i)]

(***************************************************************************)
(* The body of the parallel region, as thread tid executes it.             *)
(***************************************************************************)
\* unsigned long chunk_size = size / num_threads
ChunkSize(sz, nt) == sz \div nt

ChunkStartOneEarly(tid, sz, nt) == IF tid = 0 THEN 0 ELSE tid * ChunkSize(sz, nt) - 1

\* unsigned long start = tid * chunk_size
ChunkStart(tid, sz, nt) == tid * ChunkSize(sz, nt)

ChunkEndEmptyUnlessLast(tid, sz, nt) ==
    IF tid = nt - 1 THEN sz ELSE ChunkStart(tid, sz, nt)

ChunkEndNoRemainder(tid, sz, nt) == ChunkStart(tid, sz, nt) + ChunkSize(sz, nt)

\* unsigned long end = (tid == num_threads - 1) ? size : start + chunk_size
ChunkEnd(tid, sz, nt) ==
    IF tid = nt - 1 THEN sz ELSE ChunkStart(tid, sz, nt) + ChunkSize(sz, nt)

IsOwnedByEveryThread(r, tid, k) == TRUE

\* #pragma omp for / parallel for: iteration k is run by one thread of the team
IsOwned(r, tid, k) == r.owner[k] = tid

\* the iterations of a work-sharing loop given to thread tid, from i on
OwnedFrom(r, tid, i) == {k \in i .. r.size - 1 : IsOwned(r, tid, k)}

NextOwned(r, tid, i) ==
    IF OwnedFrom(r, tid, i) = {} THEN r.size
    ELSE CHOOSE k \in OwnedFrom(r, tid, i) : \A m \in OwnedFrom(r, tid, i) : k <= m

\* the first value of the loop counter
LoopInit(r, tid) ==
    IF IsStrided(r) THEN tid
    ELSE IF IsWorkShared(r) THEN NextOwned(r, tid, 0)
    ELSE ChunkStart(tid, r.size, r.num_threads)

\* the loop condition: i < end, i < size
LoopCond(r, tid, i) ==
    IF IsPartitioned(r) THEN i < ChunkEnd(tid, r.size, r.num_threads)
    ELSE i < r.size

\* the loop increment: i++, i += num_threads, or the next iteration handed out
LoopNext(r, tid, i) ==
    IF IsStrided(r) THEN i + r.num_threads
    ELSE IF IsWorkShared(r) THEN NextOwned(r, tid, i + 1)
    ELSE i + 1

StridedIdxNoStride(i, st, sz) == i % sz

\* unsigned long idx = (i * stride) % size
StridedIdx(i, st, sz) == Wrap(i * st) % sz

\* the element position iteration i touches
ElemIdx(r, i) ==
    IF IsStrided(r) THEN StridedIdx(i, r.stride, r.size)
    ELSE IF IsPermuted(r) THEN r.shuffled_indices[i]
    ELSE i

\* the element positions thread tid touches, in order, from loop counter i on
RECURSIVE LoopVisits(_, _, _)
LoopVisits(r, tid, i) ==
    IF ~LoopCond(r, tid, i) THEN <<>>
    ELSE <<ElemIdx(r, i)>> \o LoopVisits(r, tid, LoopNext(r, tid, i))

\* the element positions thread tid touches in its whole loop, in order
WorkerVisits(r, tid) == LoopVisits(r, tid, LoopInit(r, tid))

\* what one iteration adds to the slot: array[idx], or 1 when A[idx] != B[idx]
Delta(r, idx) ==
    IF IsCompare(r) THEN (IF r.array[idx] # r.B[idx] THEN 1 ELSE 0) ELSE r.array[idx]

AccumulateByAssignment(r, slots, tid, idx) ==
    [slots EXCEPT ![SlotOffset(r, SlotOf(tid))] = Delta(r, idx)]

\* partial_sums[tid].sum += array[idx]
Accumulate(r, slots, tid, idx) ==
    [slots EXCEPT ![SlotOffset(r, SlotOf(tid))] = Wrap(@ + Delta(r, idx))]

\* the number of slots the aggregation adds up
SlotCount(r) == IF IsReductionClause(r) THEN r.team ELSE r.num_threads

Workers == 0 .. team - 1

EuclidStopsEarly(m, n) == IF n = 0 THEN m ELSE n

\* the loop that checks the stride against the size: it leaves gcd(stride, size) in a
RECURSIVE Euclid(_, _)
Euclid(m, n) == IF n = 0 THEN m ELSE Euclid(n, m % n)

(***************************************************************************)
(* The loops run to their end, for the call-level specification.  The      *)
(* iterations and their order are those of the code; the recursion halves  *)
(* the iteration count so that its depth stays logarithmic, and binds each *)
(* intermediate state once.                                                *)
(***************************************************************************)
\* one iteration from st = <<i, slots>>
LoopStep(r, tid, st) ==
    <<LoopNext(r, tid, st[1]), Accumulate(r, st[2], tid, ElemIdx(r, st[1]))>>

\* at most k iterations of thread tid's loop from st = <<i, slots>>
RECURSIVE LoopSteps(_, _, _, _)
LoopSteps(r, tid, st, k) ==
    CHOOSE after \in
        {IF ~LoopCond(rr, t, s[1]) THEN s
         ELSE IF k = 1 THEN LoopStep(rr, t, s)
         ELSE LoopSteps(rr, t, LoopSteps(rr, t, s, k \div 2), k - (k \div 2)) :
            rr \in {r}, t \in {tid}, s \in {st}} : TRUE

\* thread tid's whole loop: it ends within size iterations
WorkerLoop(r, tid, slots) == LoopSteps(r, tid, <<LoopInit(r, tid), slots>>, r.size)[2]

\* the parallel region: the bodies of threads tid .. team - 1 (each writes its own
\* slot only, so the order in which they are taken does not show in the slots)
RECURSIVE RegionFrom(_, _, _)
RegionFrom(r, tid, slots) ==
    IF tid >= r.team THEN slots
    ELSE CHOOSE after \in
            {RegionFrom(r, tid + 1, s) : s \in {WorkerLoop(r, tid, slots)}} : TRUE

\* for (i = 0; i < num_threads; i++) total_sum += partial_sums[i]
RECURSIVE AggregateFrom(_, _, _, _)
AggregateFrom(r, i, slots, acc) ==
    IF i >= SlotCount(r) THEN acc
    ELSE AggregateFrom(r, i + 1, slots, Wrap(acc + SlotRead(r, slots, i)))

\* sum_good, sum_bad_fs, sum_bad_ma, compare_*: the value returned
ModeFunction(r) ==
    CHOOSE result \in
        {AggregateFrom(rr, 0, RegionFrom(rr, 0, ZeroSlots(rr)), 0) : rr \in {r}} : TRUE

(***************************************************************************)
(* Spec: one run of a mode function, one loop iteration per step.          *)
(***************************************************************************)
\* total_elements = N * N in the compare program
IsSquare(n) == \E k \in 1 .. n : k * k = n

\* the program and mode alone decide the traversal and the accumulator
Variant(f, m) == [file |-> f, mode |-> m]

InputsOK ==
    /\ file \in Files
    /\ mode \in Modes
    /\ size \in {n \in 1 .. MaxSize : IsCompare(Variant(file, mode)) => IsSquare(n)}
    /\ num_threads \in 1 .. MaxThreads
    /\ team \in 1 .. num_threads
    /\ stride \in (IF IsStrided(Variant(file, mode)) THEN 1 .. MaxStride ELSE {MainStride})
    /\ array = (IF IsCompare(Variant(file, mode)) THEN initialize_A(size)
                ELSE load_array(size))
    /\ B = (IF IsCompare(Variant(file, mode)) THEN initialize_B(size) ELSE <<>>)
    /\ shuffled_indices \in (IF IsPermuted(Variant(file, mode))
                              THEN IndexPermutations(size) ELSE {<<>>})
    /\ owner \in (IF IsWorkShared(Variant(file, mode))
                   THEN [0 .. size - 1 -> 0 .. team - 1] ELSE {<<>>})

EntryState ==
    /\ partial_sums = <<>>
    /\ pc = "entry"
    /\ wpc = [t \in Workers |-> "idle"]
    /\ wi = [t \in Workers |-> 0]
    /\ total = 0
    /\ ri = 0
    /\ writers = [o \in SlotOffsets(Args) |-> {}]
    /\ visits = [t \in Workers |-> <<>>]
    /\ a = <<>>
    /\ wj = <<>>
    /\ awrites = <<>>
    /\ si = 0
    /\ oob = FALSE
    /\ trace = <<>>
    /\ status = RUNNING
    /\ nulls = {}
    /\ base = 0

Init == InputsOK /\ EntryState

\* malloc of the slots and the loop that zeroes them, then the region forks
AllocSlots ==
    /\ pc = "entry"
    /\ partial_sums' = ZeroSlots(Args)
    /\ pc' = "parallel"
    /\ UNCHANGED <<inputs, matrixVars, shuffleVars, mainVars, wpc, wi, total, ri, writers, visits>>

\* int tid = omp_get_thread_num(); chunk_size, start, end; i = start
WorkerEnter(t) ==
    /\ pc = "parallel"
    /\ wpc[t] = "idle"
    /\ wpc' = [wpc EXCEPT ![t] = "loop"]
    /\ wi' = [wi EXCEPT ![t] = LoopInit(Args, t)]
    /\ UNCHANGED <<inputs, matrixVars, shuffleVars, mainVars, partial_sums, pc, total, ri, writers, visits>>

InputsAfterIncrement(r, idx) ==
    <<[r.array EXCEPT ![idx] = Wrap(@ + 1)], r.B, r.shuffled_indices>>

\* array, B and shuffled_indices after one iteration: the body reads array[idx],
\* A[idx], B[idx] and shuffled_indices[i] and assigns to none of them
InputsAfter(r, idx) == <<r.array, r.B, r.shuffled_indices>>

\* one iteration of the worker's loop
WorkerIter(t) ==
    /\ pc = "parallel"
    /\ wpc[t] = "loop"
    /\ LoopCond(Args, t, wi[t])
    /\ partial_sums' = Accumulate(Args, partial_sums, t, ElemIdx(Args, wi[t]))
    /\ array' = InputsAfter(Args, ElemIdx(Args, wi[t]))[1]
    /\ B' = InputsAfter(Args, ElemIdx(Args, wi[t]))[2]
    /\ shuffled_indices' = InputsAfter(Args, ElemIdx(Args, wi[t]))[3]
    /\ writers' = [writers EXCEPT ![SlotOffset(Args, SlotOf(t))] = @ \cup {t}]
    /\ visits' = [visits EXCEPT ![t] = Append(@, ElemIdx(Args, wi[t]))]
    /\ wi' = [wi EXCEPT ![t] = LoopNext(Args, t, wi[t])]
    /\ UNCHANGED <<file, mode, size, num_threads, team, stride, owner, matrixVars,
                   shuffleVars, mainVars, pc, wpc, total, ri>>

\* the loop condition fails: the worker waits at the region's closing barrier
WorkerExit(t) ==
    /\ pc = "parallel"
    /\ wpc[t] = "loop"
    /\ ~LoopCond(Args, t, wi[t])
    /\ wpc' = [wpc EXCEPT ![t] = "barrier"]
    /\ UNCHANGED <<inputs, matrixVars, shuffleVars, mainVars, partial_sums, pc, wi, total, ri, writers, visits>>

SomeAtBarrier == \E t \in Workers : wpc[t] = "barrier"

BarrierForRequestedThreads ==
    Cardinality({t \in Workers : wpc[t] = "barrier"}) = num_threads

\* every thread of the team has reached the end of the region
AllAtBarrier == \A t \in Workers : wpc[t] = "barrier"

\* the implicit barrier at the end of the region
Join ==
    /\ pc = "parallel"
    /\ AllAtBarrier
    /\ pc' = "reduce"
    /\ UNCHANGED <<inputs, matrixVars, shuffleVars, mainVars, partial_sums, wpc, wi, total, ri, writers, visits>>

\* total_sum += partial_sums[i]
ReduceStep ==
    /\ pc = "reduce"
    /\ ri < SlotCount(Args)
    /\ total' = Wrap(total + SlotRead(Args, partial_sums, ri))
    /\ ri' = ri + 1
    /\ UNCHANGED <<inputs, matrixVars, shuffleVars, mainVars, partial_sums, pc, wpc, wi, writers, visits>>

\* the aggregation loop ends; the result is reported and returned
Return ==
    /\ pc = "reduce"
    /\ ri >= SlotCount(Args)
    /\ pc' = "done"
    /\ UNCHANGED <<inputs, matrixVars, shuffleVars, mainVars, partial_sums, wpc, wi, total, ri, writers, visits>>

Next ==
    \/ AllocSlots
    \/ \E t \in Workers : WorkerEnter(t)
    \/ \E t \in Workers : WorkerIter(t)
    \/ \E t \in Workers : WorkerExit(t)
    \/ Join
    \/ ReduceStep
    \/ Return

Spec == Init /\ [][Next]_vars

(***************************************************************************)
(* SpecCall: the mode functions over larger inputs, a phase per step: the  *)
(* allocation of the slots, the parallel region (fork to join) and the     *)
(* aggregation.  The runtime starts the team that was requested.  The      *)
(* history variables are not kept here.                                    *)
(***************************************************************************)
CallInputsOK ==
    /\ file \in Files
    /\ mode \in Modes
    /\ size \in (IF IsCompare(Variant(file, mode)) THEN {k * k : k \in 1 .. MaxSide}
                  ELSE 1 .. MaxCallSize)
    /\ num_threads \in 1 .. MaxCallThreads
    /\ team = num_threads
    /\ stride \in (IF IsStrided(Variant(file, mode)) THEN 1 .. MainStride ELSE {MainStride})
    /\ array = (IF IsCompare(Variant(file, mode)) THEN initialize_A(size)
                ELSE load_array(size))
    /\ B = (IF IsCompare(Variant(file, mode)) THEN initialize_B(size) ELSE <<>>)
    /\ shuffled_indices \in (IF IsPermuted(Variant(file, mode))
                              THEN SamplePermutations(size) ELSE {<<>>})
    /\ owner \in (IF IsWorkShared(Variant(file, mode))
                   THEN SampleSchedules(size, team) ELSE {<<>>})

InitCall == CallInputsOK /\ EntryState

\* #pragma omp parallel { ... }: every thread's body, up to the closing barrier
ParallelRegion ==
    /\ pc = "parallel"
    /\ partial_sums' = RegionFrom(Args, 0, partial_sums)
    /\ wpc' = [t \in Workers |-> "barrier"]
    /\ pc' = "reduce"
    /\ UNCHANGED <<inputs, matrixVars, shuffleVars, mainVars, wi, total, ri, writers, visits>>

\* the aggregation loop, and the return of its total
Aggregate ==
    /\ pc = "reduce"
    /\ total' = AggregateFrom(Args, 0, partial_sums, total)
    /\ ri' = SlotCount(Args)
    /\ pc' = "done"
    /\ UNCHANGED <<inputs, matrixVars, shuffleVars, mainVars, partial_sums, wpc, wi, writers, visits>>

NextCall ==
    \/ AllocSlots
    \/ ParallelRegion
    \/ Aggregate

SpecCall == InitCall /\ [][NextCall]_vars

(***************************************************************************)
(* SpecMatrix: good_mode, bad_fs_mode and bad_ma_mode of the               *)
(* matrix-initialisation program, from the fork of the parallel loop to    *)
(* its join, one element write per step.  size is N, num_threads is        *)
(* threads, wi the counter of the work-shared outer loop, wj the counter   *)
(* of the inner loop.                                                      *)
(***************************************************************************)
\* schedule(static): the iterations are cut into consecutive chunks, at most one per
\* thread, handed out in the order of the thread numbers from thread 0 on
StaticSchedules(n, tm) ==
    {f \in [0 .. n - 1 -> 0 .. tm - 1] :
        /\ f[0] = 0
        /\ \A i \in 1 .. n - 1 : f[i] \in {f[i - 1], f[i - 1] + 1}}

\* the first value of the inner counter: j = 0, j = tid, i = 0
InnerInit(r, tid) == IF r.mode = "bad-fs" THEN tid ELSE 0

\* the inner increment: j++, j += threads, i++
InnerNext(r, j) == IF r.mode = "bad-fs" THEN j + r.num_threads ELSE j + 1

\* the element <<row, column>> written: a[i][j] in good_mode, a[j][i] in bad_fs_mode
\* (outer i, inner j), a[i][j] in bad_ma_mode (outer j, inner i)
Cell(r, outer, inner) == IF r.mode = "good" THEN <<outer, inner>> ELSE <<inner, outer>>

\* the value written: 17, 17 + tid
CellValue(r, tid) == IF r.mode = "bad-fs" THEN FillValue + tid ELSE FillValue

Cells == (0 .. size - 1) \X (0 .. size - 1)

\* the elements one run of the inner loop of thread tid writes, in order, from j on
RECURSIVE InnerVisits(_, _, _, _)
InnerVisits(r, tid, outer, j) ==
    IF j >= r.size THEN <<>>
    ELSE <<Cell(r, outer, j)>> \o InnerVisits(r, tid, outer, InnerNext(r, j))

\* the elements thread tid writes, in order, from its outer iteration i on
RECURSIVE OuterVisits(_, _, _)
OuterVisits(r, tid, i) ==
    IF i >= r.size THEN <<>>
    ELSE InnerVisits(r, tid, i, InnerInit(r, tid))
            \o OuterVisits(r, tid, NextOwned(r, tid, i + 1))

\* good_mode, bad_fs_mode, bad_ma_mode: the elements thread tid writes, in order
MatrixVisits(r, tid) == OuterVisits(r, tid, NextOwned(r, tid, 0))

InitMatrix ==
    /\ file = "matrix_init_access_modes_23"
    /\ mode \in Modes
    /\ size \in 1 .. MaxMatrix
    /\ num_threads \in 1 .. MaxThreads
    /\ team \in 1 .. num_threads
    /\ owner \in StaticSchedules(size, team)
    /\ a = [c \in Cells |-> UNINITIALISED]
    /\ awrites = [c \in Cells |-> <<>>]
    /\ wj = [t \in Workers |-> 0]
    /\ wi = [t \in Workers |-> 0]
    /\ wpc = [t \in Workers |-> "idle"]
    /\ pc = "parallel"
    /\ stride = MainStride
    /\ array = <<>>
    /\ B = <<>>
    /\ shuffled_indices = <<>>
    /\ partial_sums = <<>>
    /\ total = 0
    /\ ri = 0
    /\ writers = <<>>
    /\ visits = [t \in Workers |-> <<>>]
    /\ si = 0
    /\ oob = FALSE
    /\ trace = <<>>
    /\ status = RUNNING
    /\ nulls = {}
    /\ base = 0

unusedByMatrix ==
    <<file, mode, size, num_threads, team, owner, stride, array, B, shuffled_indices,
      partial_sums, total, ri, writers, si, oob, trace, status, nulls, base>>

\* the thread takes its first iteration of the outer loop
MatrixEnter(t) ==
    /\ pc = "parallel"
    /\ wpc[t] = "idle"
    /\ wpc' = [wpc EXCEPT ![t] = "loop"]
    /\ wi' = [wi EXCEPT ![t] = NextOwned(Args, t, 0)]
    /\ wj' = [wj EXCEPT ![t] = InnerInit(Args, t)]
    /\ UNCHANGED <<unusedByMatrix, pc, a, awrites, visits>>

\* one iteration of the inner loop: a[..][..] = 17
MatrixWrite(t) ==
    /\ pc = "parallel"
    /\ wpc[t] = "loop"
    /\ wi[t] < size
    /\ wj[t] < size
    /\ a' = [a EXCEPT ![Cell(Args, wi[t], wj[t])] = CellValue(Args, t)]
    /\ awrites' = [awrites EXCEPT ![Cell(Args, wi[t], wj[t])] = Append(@, t)]
    /\ wj' = [wj EXCEPT ![t] = InnerNext(Args, wj[t])]
    /\ visits' = [visits EXCEPT ![t] = Append(@, Cell(Args, wi[t], wj[t]))]
    /\ UNCHANGED <<unusedByMatrix, pc, wpc, wi>>

\* the inner loop ends: the thread takes its next iteration of the outer loop
MatrixNextOuter(t) ==
    /\ pc = "parallel"
    /\ wpc[t] = "loop"
    /\ wi[t] < size
    /\ wj[t] >= size
    /\ wi' = [wi EXCEPT ![t] = NextOwned(Args, t, wi[t] + 1)]
    /\ wj' = [wj EXCEPT ![t] = InnerInit(Args, t)]
    /\ UNCHANGED <<unusedByMatrix, pc, wpc, a, awrites, visits>>

\* no iteration is left for the thread: it waits at the loop's closing barrier
MatrixExit(t) ==
    /\ pc = "parallel"
    /\ wpc[t] = "loop"
    /\ wi[t] >= size
    /\ wpc' = [wpc EXCEPT ![t] = "barrier"]
    /\ UNCHANGED <<unusedByMatrix, pc, wi, wj, a, awrites, visits>>

\* the barrier: the mode function returns
MatrixJoin ==
    /\ pc = "parallel"
    /\ \A t \in Workers : wpc[t] = "barrier"
    /\ pc' = "done"
    /\ UNCHANGED <<unusedByMatrix, wpc, wi, wj, a, awrites, visits>>

NextMatrix ==
    \/ \E t \in Workers : MatrixEnter(t)
    \/ \E t \in Workers : MatrixWrite(t)
    \/ \E t \in Workers : MatrixNextOuter(t)
    \/ \E t \in Workers : MatrixExit(t)
    \/ MatrixJoin

SpecMatrix == InitMatrix /\ [][NextMatrix]_vars

(***************************************************************************)
(* SpecShuffle: shuffle_array / shuffle_indices on the identity sequence   *)
(* of length size, one iteration per step.  The counter i is unsigned.     *)
(* Dividing by zero and touching a position outside the array are          *)
(* undefined: the run may fault, or go on with anything in the positions   *)
(* it touched.                                                             *)
(***************************************************************************)
ShuffleFiles == {"array_sum_performance_variation_10", "matrix_init_access_variation_29",
                 "matrix_compare_memory_modes_31"}

InitShuffle ==
    /\ file \in ShuffleFiles
    /\ size \in 0 .. MaxShuffleSize
    /\ shuffled_indices = [i \in 0 .. size - 1 |-> i]
    /\ si = 0
    /\ oob = FALSE
    /\ pc = "call"
    /\ mode = "bad-ma"
    /\ num_threads = 1
    /\ team = 1
    /\ owner = <<>>
    /\ stride = MainStride
    /\ array = <<>>
    /\ B = <<>>
    /\ partial_sums = <<>>
    /\ total = 0
    /\ ri = 0
    /\ writers = <<>>
    /\ visits = <<>>
    /\ wpc = <<>>
    /\ wi = <<>>
    /\ a = <<>>
    /\ wj = <<>>
    /\ awrites = <<>>
    /\ trace = <<>>
    /\ status = RUNNING
    /\ nulls = {}
    /\ base = 0

unusedByShuffle ==
    <<file, mode, size, num_threads, team, owner, stride, array, B, partial_sums,
      total, ri, writers, visits, wpc, wi, a, wj, awrites, trace, status, nulls, base>>

\* unsigned long i = size - 1
ShuffleStart(n) == Wrap(n - 1)

\* temp = indices[i]; indices[i] = indices[j]; indices[j] = temp, both inside the array
Swapped(seq, i, j) == [seq EXCEPT ![i] = seq[j], ![j] = seq[i]]

\* what a swap that leaves the array may put into the positions inside it
Clobbered(seq, i, j) ==
    {f \in [DOMAIN seq -> 0 .. MaxShuffleSize] :
        \A k \in DOMAIN seq : k \notin {i, j} => f[k] = seq[k]}

\* srand(time(NULL)); i = size - 1
ShuffleEnter ==
    /\ pc = "call"
    /\ si' = ShuffleStart(size)
    /\ pc' = "loop"
    /\ UNCHANGED <<unusedByShuffle, shuffled_indices, oob>>

\* one iteration with j = rand() % (i + 1), 0 < i < size
ShuffleSwap ==
    /\ pc = "loop"
    /\ si > 0
    /\ Wrap(si + 1) # 0
    /\ si < size
    /\ \E rv \in 0 .. MaxRand :
          shuffled_indices' = Swapped(shuffled_indices, si, rv % Wrap(si + 1))
    /\ si' = si - 1
    /\ UNCHANGED <<unusedByShuffle, pc, oob>>

\* one iteration whose i + 1 is 0 or whose i lies outside the array: it goes on
ShuffleStray ==
    /\ pc = "loop"
    /\ si > 0
    /\ Wrap(si + 1) = 0 \/ si >= size
    /\ oob' = TRUE
    /\ \E j \in 0 .. MaxRand : shuffled_indices' \in Clobbered(shuffled_indices, si, j)
    /\ si' = si - 1
    /\ UNCHANGED <<unusedByShuffle, pc>>

\* one iteration whose i + 1 is 0 or whose i lies outside the array: the run faults
ShuffleFault ==
    /\ pc = "loop"
    /\ si > 0
    /\ Wrap(si + 1) = 0 \/ si >= size
    /\ pc' = "fault"
    /\ UNCHANGED <<unusedByShuffle, shuffled_indices, si, oob>>

\* i > 0 fails: the function returns
ShuffleReturn ==
    /\ pc = "loop"
    /\ si = 0
    /\ pc' = "done"
    /\ UNCHANGED <<unusedByShuffle, shuffled_indices, si, oob>>

NextShuffle ==
    \/ ShuffleEnter
    \/ ShuffleSwap
    \/ ShuffleStray
    \/ ShuffleFault
    \/ ShuffleReturn

SpecShuffle == InitShuffle /\ [][NextShuffle]_vars

(***************************************************************************)
(* SpecMain: main of each program around its mode function: the argument   *)
(* checks, the allocations (any one of which may fail), the timer          *)
(* readings, the region, the aggregation and the report, each recorded in  *)
(* trace as it happens.  The mode function runs a phase per step.  size is *)
(* the element count (N * N in the compare program, N in the others).      *)
(* A write through a null pointer or past the end of the slot block is     *)
(* undefined: the run may fault, or go on with anything in the total.      *)
(***************************************************************************)
MainFiles ==
    Files \cup {"matrix_init_access_modes_23", "array_sum_performance_variation_10"}

\* what argv[1] may hold: the mode names of the programs and a string none of them knows
MainModes == Modes \cup {"bad", "fast"}

\* the program is sequential and takes <mode> <size>
IsSequential(f) == f = "array_sum_performance_variation_10"

\* the program fills a matrix instead of aggregating
IsMatrixInit(f) == f = "matrix_init_access_modes_23"

\* the mode strings the program accepts
ValidModes(f) == IF IsSequential(f) THEN {"good", "bad"} ELSE Modes

\* the mode string is compared before anything is allocated
ChecksModeFirst(f) == ~IsSequential(f)

\* if (size == 0) ... return EXIT_FAILURE
ChecksSize(f) ==
    f \in {"array_sum_memory_access_28", "matrix_init_access_variation_29",
           "matrix_compare_memory_modes_31", "array_sum_performance_variation_10"}

\* if (num_threads <= 0) ... return EXIT_FAILURE
ChecksThreads(f) ==
    f \in {"array_sum_memory_access_28", "matrix_init_access_variation_29",
           "matrix_compare_memory_modes_31"}

\* the checks main makes before its first allocation
RejectedAtEntry ==
    \/ ChecksModeFirst(file) /\ mode \notin ValidModes(file)
    \/ ChecksSize(file) /\ size = 0
    \/ ChecksThreads(file) /\ num_threads <= 0

\* main allocates and shuffles an index sequence
NeedsIndices == IsPermuted(Args) \/ (IsSequential(file) /\ mode = "bad")

\* main allocates two dataset buffers: A and B, the row pointers and the block
HasSecondBuffer == IsCompare(Args) \/ IsMatrixInit(file)

\* the slot block is used without a check of what malloc returned
SlotsUnchecked == IsWorkShared(Args)

\* what malloc returns when it fails
NULL == -1

\* malloc returns addresses aligned for any object
MALLOC_ALIGN == 16

\* the addresses malloc may return, modulo the cache line
Bases == {k * MALLOC_ALIGN : k \in 0 .. (CACHE_LINE_SIZE \div MALLOC_ALIGN) - 1}

\* whether malloc returns NULL: it does for the allocation that fails, and may for
\* a request of zero bytes
MallocIsNull(what, count) ==
    IF what \in nulls THEN {TRUE} ELSE IF count = 0 THEN {TRUE, FALSE} ELSE {FALSE}

\* what an undefined write may leave in the total
Garbage == {0, 1}

\* the arguments the region runs with: a reduction clause has one private copy
\* per thread of the team
RegionArgs == IF IsReductionClause(Args) THEN [Args EXCEPT !.num_threads = team] ELSE Args

\* the slot block can take the writes of the team
SlotsUsable ==
    IsReductionClause(Args) \/ (DOMAIN partial_sums # {} /\ team <= num_threads)

mainFrame ==
    <<file, mode, size, num_threads, team, stride, owner, nulls, wpc, wi, ri,
      writers, visits, matrixVars, shuffleVars>>

InitMain ==
    /\ file \in MainFiles
    /\ mode \in MainModes
    /\ size \in {n \in 0 .. MaxMainSize : IsCompare(Variant(file, mode)) => (n = 0 \/ IsSquare(n))}
    /\ num_threads \in (IF IsSequential(file) THEN {1} ELSE -1 .. MaxMainThreads)
    /\ team \in (IF num_threads >= 1 THEN {num_threads} ELSE 1 .. MaxMainThreads)
    /\ stride \in (IF IsStrided(Variant(file, mode)) THEN 1 .. MaxStride ELSE {MainStride})
    /\ owner \in (IF IsWorkShared(Variant(file, mode))
                   THEN SampleSchedules(size, team) ELSE {<<>>})
    /\ nulls \in {{}, {"array"}, {"second"}, {"indices"}, {"slots"}}
    /\ array = <<>>
    /\ B = <<>>
    /\ shuffled_indices = <<>>
    /\ partial_sums = <<>>
    /\ base = 0
    /\ total = 0
    /\ trace = <<>>
    /\ status = RUNNING
    /\ pc = "main"
    /\ wpc = <<>>
    /\ wi = <<>>
    /\ ri = 0
    /\ writers = <<>>
    /\ visits = <<>>
    /\ a = <<>>
    /\ wj = <<>>
    /\ awrites = <<>>
    /\ si = 0
    /\ oob = FALSE

\* the event has happened
InTrace(ev) == \E k \in 1 .. Len(trace) : trace[k] = ev

\* the mode, size and thread-count checks at the top of main
MainCheckArgs ==
    /\ pc = "main"
    /\ IF RejectedAtEntry
       THEN /\ trace' = Append(trace, "reject")
            /\ status' = 1
            /\ pc' = "exit"
       ELSE /\ pc' = "alloc"
            /\ UNCHANGED <<trace, status>>
    /\ UNCHANGED <<mainFrame, array, B, shuffled_indices, partial_sums, base, total>>

\* what the allocation of the dataset leaves in the trace: both buffers of the
\* compare program are requested before either is tested, the block of the matrix
\* program is requested once the row pointers were obtained
DataAllocEvents(null1, null2) ==
    IF IsCompare(Args) THEN <<"alloc", "alloc">>
    ELSE IF IsMatrixInit(file) /\ ~null1 THEN <<"alloc", "alloc">>
    ELSE <<"alloc">>

\* the dataset main builds: load_array, initialize_matrices, the row pointers
Dataset ==
    IF IsCompare(Args) THEN <<initialize_A(size), initialize_B(size)>>
    ELSE IF IsMatrixInit(file) THEN <<<<>>, <<>>>>
    ELSE <<load_array(size), <<>>>>

\* malloc of the dataset, the test of what it returned, and the initialisation
MainAllocData ==
    /\ pc = "alloc"
    /\ \E null1 \in MallocIsNull("array", size),
          null2 \in (IF HasSecondBuffer THEN MallocIsNull("second", size) ELSE {FALSE}) :
          IF null1 \/ null2
          THEN /\ trace' = trace \o DataAllocEvents(null1, null2) \o <<"null", "alloc_failed">>
               /\ status' = 1
               /\ pc' = "exit"
               /\ UNCHANGED <<array, B>>
          ELSE /\ trace' = trace \o DataAllocEvents(null1, null2) \o <<"init">>
               /\ array' = Dataset[1]
               /\ B' = Dataset[2]
               /\ pc' = "indices"
               /\ UNCHANGED status
    /\ UNCHANGED <<mainFrame, shuffled_indices, partial_sums, base, total>>

\* the index sequence of the randomised modes: malloc, the identity, the shuffle
MainPrepareIndices ==
    /\ pc = "indices"
    /\ IF ~NeedsIndices
       THEN /\ pc' = "dispatch"
            /\ UNCHANGED <<trace, status, shuffled_indices>>
       ELSE \E null \in MallocIsNull("indices", size) :
              IF null
              THEN /\ trace' = trace \o <<"alloc", "null", "alloc_failed">>
                   /\ status' = 1
                   /\ pc' = "exit"
                   /\ UNCHANGED shuffled_indices
              ELSE /\ trace' = trace \o <<"alloc", "init">>
                   /\ shuffled_indices' \in SamplePermutations(size)
                   /\ pc' = "dispatch"
                   /\ UNCHANGED status
    /\ UNCHANGED <<mainFrame, array, B, partial_sums, base, total>>

\* the if / else if chain on the mode string that calls the mode function
MainDispatch ==
    /\ pc = "dispatch"
    /\ IF IsSequential(file)
       THEN IF mode \in ValidModes(file)
            THEN /\ pc' = "first"
                 /\ UNCHANGED <<trace, status>>
            ELSE /\ trace' = Append(trace, "reject")
                 /\ status' = 1
                 /\ pc' = "exit"
       ELSE IF IsWorkShared(Args)
            THEN /\ trace' = trace \o <<"time_start", "report">>
                 /\ pc' = "fn_alloc"
                 /\ UNCHANGED status
       ELSE IF IsMatrixInit(file)
            THEN /\ trace' = Append(trace, "time_start")
                 /\ pc' = "parallel"
                 /\ UNCHANGED status
       ELSE /\ pc' = "fn_entry"
            /\ UNCHANGED <<trace, status>>
    /\ UNCHANGED <<mainFrame, array, B, shuffled_indices, partial_sums, base, total>>

\* the top of the mode function: the strided sum_bad_ma runs its Euclid loop and
\* warns when what it leaves in a is not 1
FnEntry ==
    /\ pc = "fn_entry"
    /\ trace' = IF IsStrided(Args) /\ Euclid(stride, size) # 1
                THEN Append(trace, "warn") ELSE trace
    /\ pc' = "fn_alloc"
    /\ UNCHANGED <<mainFrame, status, array, B, shuffled_indices, partial_sums, base, total>>

\* the timer reading that follows the zeroing of the slots in the mode functions
StartAfterSlots == IF IsWorkShared(Args) THEN <<>> ELSE <<"time_start">>

\* malloc of the slots, the test of what it returned, the zeroing loop, the timer
FnAllocSlots ==
    /\ pc = "fn_alloc"
    /\ IF IsReductionClause(Args)
       THEN /\ partial_sums' = ZeroSlots(RegionArgs)
            /\ pc' = "parallel"
            /\ UNCHANGED <<trace, status, base>>
       ELSE \E null \in MallocIsNull("slots", IF num_threads <= 0 THEN 0 ELSE num_threads) :
              IF null /\ ~SlotsUnchecked
              THEN /\ trace' = trace \o <<"alloc", "null", "alloc_failed">>
                   /\ status' = 1
                   /\ pc' = "exit"
                   /\ UNCHANGED <<partial_sums, base>>
              ELSE IF null /\ num_threads >= 1
              THEN /\ trace' = trace \o <<"alloc", "null", "null_write">>
                   /\ base' = NULL
                   /\ pc' = "undefined"
                   /\ UNCHANGED <<partial_sums, status>>
              ELSE IF null
              THEN /\ trace' = trace \o <<"alloc", "null">>
                   /\ base' = NULL
                   /\ pc' = "parallel"
                   /\ UNCHANGED <<partial_sums, status>>
              ELSE /\ trace' = trace \o <<"alloc", "init_slots">> \o StartAfterSlots
                   /\ base' \in Bases
                   /\ partial_sums' = ZeroSlots(Args)
                   /\ pc' = "parallel"
                   /\ UNCHANGED status
    /\ UNCHANGED <<mainFrame, array, B, shuffled_indices, total>>

\* the parallel region, fork to join
FnRegion ==
    /\ pc = "parallel"
    /\ IF IsMatrixInit(file)
       THEN /\ trace' = trace \o <<"region", "time_end">>
            /\ pc' = "report"
            /\ UNCHANGED partial_sums
       ELSE IF SlotsUsable
       THEN /\ trace' = Append(trace, "region")
            /\ partial_sums' = RegionFrom(RegionArgs, 0, partial_sums)
            /\ pc' = "reduce"
       ELSE IF size = 0
       THEN /\ trace' = Append(trace, "region")
            /\ pc' = "reduce"
            /\ UNCHANGED partial_sums
       ELSE /\ trace' = trace \o <<"region", IF base = NULL THEN "null_write" ELSE "stray_write">>
            /\ pc' = "undefined"
            /\ UNCHANGED partial_sums
    /\ UNCHANGED <<mainFrame, status, array, B, shuffled_indices, base, total>>

\* the free that precedes the end-time reading in the work-shared bad-fs mode
FreeBeforeEnd == IF IsWorkShared(Args) /\ IsPacked(Args) THEN <<"free">> ELSE <<>>

\* the aggregation loop and the end-time reading
FnReduce ==
    /\ pc = "reduce"
    /\ total' = IF SlotsUsable THEN AggregateFrom(RegionArgs, 0, partial_sums, 0) ELSE 0
    /\ trace' = trace \o <<"reduce">> \o FreeBeforeEnd \o <<"time_end">>
    /\ pc' = "report"
    /\ UNCHANGED <<mainFrame, status, array, B, shuffled_indices, partial_sums, base>>

\* the result and the time are printed, the buffers freed, main returns 0
FnReport ==
    /\ pc = "report"
    /\ trace' = Append(trace, "report")
    /\ status' = 0
    /\ pc' = "exit"
    /\ UNCHANGED <<mainFrame, array, B, shuffled_indices, partial_sums, base, total>>

\* after an undefined write the process is killed
UndefinedFault ==
    /\ pc = "undefined"
    /\ status' = SIGNALLED
    /\ pc' = "exit"
    /\ UNCHANGED <<mainFrame, trace, array, B, shuffled_indices, partial_sums, base, total>>

\* after an undefined write the run goes on to its report
UndefinedCarryOn ==
    /\ pc = "undefined"
    /\ total' \in Garbage
    /\ trace' = trace \o (IF InTrace("region") THEN <<>> ELSE <<"region">>)
                      \o <<"reduce">> \o FreeBeforeEnd \o <<"time_end">>
    /\ pc' = "report"
    /\ UNCHANGED <<mainFrame, status, array, B, shuffled_indices, partial_sums, base>>

\* sum_linear: sum += array[i], i = 0 .. n - 1
RECURSIVE sum_linear(_, _)
sum_linear(arr, n) == IF n = 0 THEN 0 ELSE Wrap(sum_linear(arr, n - 1) + arr[n - 1])

\* sum_random: sum += array[indices[i]], i = 0 .. n - 1
RECURSIVE sum_random(_, _, _)
sum_random(arr, indices, n) ==
    IF n = 0 THEN 0 ELSE Wrap(sum_random(arr, indices, n - 1) + arr[indices[n - 1]])

\* sum_strided: for (i = 0; i < size; i += stride) sum += array[i], from i on
RECURSIVE sum_strided(_, _, _, _)
sum_strided(arr, n, st, i) ==
    IF i >= n THEN 0 ELSE Wrap(arr[i] + sum_strided(arr, n, st, i + st))

\* modify_and_sum: array[i] += 1
modified(arr) == [i \in DOMAIN arr |-> Wrap(arr[i] + 1)]

\* one timed function of the sequential program: reading, loop, reading, two printfs
TimedLoop == <<"time_start", "loop", "time_end", "report">>

\* sum_linear(array, size) in mode good, sum_random(array, indices, size) in mode bad
SeqFirst ==
    /\ pc = "first"
    /\ total' = IF mode = "good" THEN sum_linear(array, size)
                ELSE sum_random(array, shuffled_indices, size)
    /\ trace' = trace \o TimedLoop
    /\ pc' = "second"
    /\ UNCHANGED <<mainFrame, status, array, B, shuffled_indices, partial_sums, base>>

\* modify_and_sum(array, size) in mode good, sum_strided(array, size, 5) in mode bad;
\* then the buffers are freed and main returns 0
SeqSecond ==
    /\ pc = "second"
    /\ array' = IF mode = "good" THEN modified(array) ELSE array
    /\ total' = IF mode = "good" THEN sum_linear(modified(array), size)
                ELSE sum_strided(array, size, SeqStride, 0)
    /\ trace' = trace \o TimedLoop
    /\ status' = 0
    /\ pc' = "exit"
    /\ UNCHANGED <<mainFrame, B, shuffled_indices, partial_sums, base>>

NextMain ==
    \/ MainCheckArgs
    \/ MainAllocData
    \/ MainPrepareIndices
    \/ MainDispatch
    \/ FnEntry
    \/ FnAllocSlots
    \/ FnRegion
    \/ FnReduce
    \/ FnReport
    \/ UndefinedFault
    \/ UndefinedCarryOn
    \/ SeqFirst
    \/ SeqSecond

\* main is one process that is always scheduled: it takes its next step
SpecMain == InitMain /\ [][NextMain]_vars /\ WF_vars(NextMain)

(***************************************************************************)
(* SpecInit: initialize_matrices of the compare program, thread by thread. *)
(* Two work-sharing loops follow each other, each with the barrier that    *)
(* ends a parallel for.  A thread runs its fill iterations in bursts: the  *)
(* iterations of different threads write different elements, so a finer    *)
(* interleaving of the fill loop reaches the same states at the burst      *)
(* boundaries.  array is A.                                                *)
(***************************************************************************)
\* schedule(static) without a chunk size: n iterations in team blocks of nearly equal
\* size, in thread order; the first iteration of thread t's block
StaticLo(n, tm, t) == t * (n \div tm) + (IF t < n % tm THEN t ELSE n % tm)

\* the iterations i = 0, 1000, 2000, .. < n of the second loop are numbered 0, 1, 2, ..
DivergeCount(n) == (n + DiffPeriod - 1) \div DiffPeriod

\* the sides N main hands over as size = N * N
InitSides == {1, 2, MaxSide - 1, MaxSide}

InitInit ==
    /\ file = "matrix_compare_memory_modes_31"
    /\ mode \in Modes
    /\ size \in {n * n : n \in InitSides}
    /\ team \in 1 .. MaxInitThreads
    /\ num_threads = team
    /\ array = [i \in 0 .. size - 1 |-> UNINITIALISED]
    /\ B = [i \in 0 .. size - 1 |-> UNINITIALISED]
    /\ pc = "call"
    /\ wpc = [t \in Workers |-> "fill"]
    /\ wi = [t \in Workers |-> StaticLo(size, team, t)]
    /\ trace = <<>>
    /\ stride = MainStride
    /\ shuffled_indices = <<>>
    /\ owner = <<>>
    /\ partial_sums = <<>>
    /\ total = 0
    /\ ri = 0
    /\ writers = <<>>
    /\ visits = <<>>
    /\ a = <<>>
    /\ wj = <<>>
    /\ awrites = <<>>
    /\ si = 0
    /\ oob = FALSE
    /\ status = RUNNING
    /\ nulls = {}
    /\ base = 0

unusedByInit ==
    <<file, mode, size, num_threads, team, stride, shuffled_indices, owner,
      partial_sums, total, ri, writers, visits, matrixVars, shuffleVars,
      status, nulls, base>>

\* the end of the burst thread t runs from wi[t]
BurstEnd(t) ==
    IF wi[t] + InitBurst < StaticLo(size, team, t + 1)
    THEN wi[t] + InitBurst ELSE StaticLo(size, team, t + 1)

\* first loop: A[i] = i % 100; B[i] = A[i];
InitFill(t) ==
    /\ pc = "call"
    /\ wpc[t] = "fill"
    /\ wi[t] < StaticLo(size, team, t + 1)
    /\ array' = [i \in 0 .. size - 1 |->
                    IF i \in wi[t] .. BurstEnd(t) - 1 THEN i % ValueModulus ELSE array[i]]
    /\ B' = [i \in 0 .. size - 1 |->
                IF i \in wi[t] .. BurstEnd(t) - 1 THEN i % ValueModulus ELSE B[i]]
    /\ wi' = [wi EXCEPT ![t] = BurstEnd(t)]
    /\ UNCHANGED <<unusedByInit, pc, wpc, trace>>

\* thread t has run its block of the first loop and waits at the loop's barrier
InitFillExit(t) ==
    /\ pc = "call"
    /\ wpc[t] = "fill"
    /\ wi[t] >= StaticLo(size, team, t + 1)
    /\ wpc' = [wpc EXCEPT ![t] = "barrier"]
    /\ UNCHANGED <<unusedByInit, pc, wi, array, B, trace>>

FillBarrierAlwaysOpen == TRUE

\* the barrier that ends the first parallel for: every thread has left the fill loop
FillBarrierOpen == \A t \in Workers : wpc[t] # "fill"

\* thread t enters its block of the second loop
InitDivergeEnter(t) ==
    /\ pc = "call"
    /\ wpc[t] = "barrier"
    /\ FillBarrierOpen
    /\ wpc' = [wpc EXCEPT ![t] = "diverge"]
    /\ wi' = [wi EXCEPT ![t] = StaticLo(DivergeCount(size), team, t) * DiffPeriod]
    /\ UNCHANGED <<unusedByInit, pc, array, B, trace>>

\* the last position of thread t's block of the second loop, plus one period
DivergeEnd(t) == StaticLo(DivergeCount(size), team, t + 1) * DiffPeriod

\* second loop: B[i] = A[i] + 1; an A[i] read before it was written is indeterminate
InitDiverge(t) ==
    /\ pc = "call"
    /\ wpc[t] = "diverge"
    /\ wi[t] < DivergeEnd(t)
    /\ IF array[wi[t]] = UNINITIALISED
       THEN /\ \E g \in Garbage : B' = [B EXCEPT ![wi[t]] = Wrap(g + 1)]
            /\ trace' = Append(trace, "uninit_read")
       ELSE /\ B' = [B EXCEPT ![wi[t]] = Wrap(array[wi[t]] + 1)]
            /\ trace' = trace
    /\ wi' = [wi EXCEPT ![t] = wi[t] + DiffPeriod]
    /\ UNCHANGED <<unusedByInit, pc, wpc, array>>

\* thread t has run its block of the second loop
InitDivergeExit(t) ==
    /\ pc = "call"
    /\ wpc[t] = "diverge"
    /\ wi[t] >= DivergeEnd(t)
    /\ wpc' = [wpc EXCEPT ![t] = "done"]
    /\ UNCHANGED <<unusedByInit, pc, wi, array, B, trace>>

\* the barrier that ends the second parallel for; initialize_matrices returns
InitReturn ==
    /\ pc = "call"
    /\ \A t \in Workers : wpc[t] = "done"
    /\ pc' = "returned"
    /\ UNCHANGED <<unusedByInit, wpc, wi, array, B, trace>>

NextInit ==
    \/ \E t \in Workers : InitFill(t)
    \/ \E t \in Workers : InitFillExit(t)
    \/ \E t \in Workers : InitDivergeEnter(t)
    \/ \E t \in Workers : InitDiverge(t)
    \/ \E t \in Workers : InitDivergeExit(t)
    \/ InitReturn

SpecInit == InitInit /\ [][NextInit]_vars

(***************************************************************************)
(* SpecReport: main of the matrix-initialisation program from the call of  *)
(* the mode function to its report, the mode function taken as one step.   *)
(***************************************************************************)
\* the outer and the inner loop counter that reach element c: the inverse of Cell
OuterOf(r, c) == IF r.mode = "good" THEN c[1] ELSE c[2]

InnerOf(r, c) == IF r.mode = "good" THEN c[2] ELSE c[1]

\* the values the inner counter of thread tid takes: 0, 1, .. or tid, tid + threads, ..
InnerRange(r, tid) ==
    {j \in InnerInit(r, tid) .. r.size - 1 : (j - InnerInit(r, tid)) % InnerNext(r, 0) = 0}

\* good_mode, bad_fs_mode, bad_ma_mode: the matrix after the call.  An element is
\* reached from one outer iteration only, so it has one writer at most.
MatrixFill(r, before) ==
    [c \in DOMAIN before |->
        IF InnerOf(r, c) \in InnerRange(r, r.owner[OuterOf(r, c)])
        THEN CellValue(r, r.owner[OuterOf(r, c)])
        ELSE before[c]]

\* schedule(static) without a chunk size, the thread of each of n iterations
BalancedSchedule(n, tm) ==
    [i \in 0 .. n - 1 |->
        CHOOSE t \in 0 .. tm - 1 : StaticLo(n, tm, t) <= i /\ i < StaticLo(n, tm, t + 1)]

InitReport ==
    /\ file = "matrix_init_access_modes_23"
    /\ mode \in Modes
    /\ size \in 1 .. MaxReportSide
    /\ num_threads \in 1 .. MaxReportThreads
    /\ team = num_threads
    /\ owner = BalancedSchedule(size, team)
    /\ a = [c \in Cells |-> UNINITIALISED]
    /\ pc = "main"
    /\ total = 0
    /\ trace = <<>>
    /\ status = RUNNING
    /\ stride = MainStride
    /\ array = <<>>
    /\ B = <<>>
    /\ shuffled_indices = <<>>
    /\ partial_sums = <<>>
    /\ ri = 0
    /\ writers = <<>>
    /\ visits = <<>>
    /\ wpc = <<>>
    /\ wi = <<>>
    /\ wj = <<>>
    /\ awrites = <<>>
    /\ si = 0
    /\ oob = FALSE
    /\ nulls = {}
    /\ base = 0

unusedByReport ==
    <<file, mode, size, num_threads, team, stride, array, B, shuffled_indices, owner,
      partial_sums, ri, writers, visits, wpc, wi, wj, awrites, shuffleVars, nulls, base>>

\* start_time; good_mode / bad_fs_mode / bad_ma_mode (a, N, threads); end_time
ReportRun ==
    /\ pc = "main"
    /\ a' = MatrixFill(Args, a)
    /\ trace' = trace \o <<"time_start", "region", "time_end">>
    /\ pc' = "ran"
    /\ UNCHANGED <<unusedByReport, total, status>>

\* if (N > 17) printf("a[17][17] = %d\n", a[17][17]); ...; return 0.  An element no
\* thread has written holds an indeterminate value.
ReportPrint ==
    /\ pc = "ran"
    /\ IF size <= ReportIndex
       THEN total' = total /\ trace' = Append(trace, "out_of_bounds")
       ELSE IF a[<<ReportIndex, ReportIndex>>] = UNINITIALISED
       THEN total' \in Garbage /\ trace' = Append(trace, "uninit_read")
       ELSE total' = a[<<ReportIndex, ReportIndex>>] /\ trace' = Append(trace, "report")
    /\ status' = 0
    /\ pc' = "exit"
    /\ UNCHANGED <<unusedByReport, a>>

NextReport ==
    \/ ReportRun
    \/ ReportPrint

SpecReport == InitReport /\ [][NextReport]_vars

(***************************************************************************)
(* SpecLive: a valid run of a sum or compare program whose allocations     *)
(* succeed, one loop iteration per step, up to the return of main.  The    *)
(* threads of the team are runnable until they reach the barrier and the   *)
(* system keeps scheduling a runnable thread: weak fairness of the steps.  *)
(***************************************************************************)
LiveInputsOK ==
    /\ file \in Files
    /\ mode \in Modes
    /\ size \in {n \in 1 .. MaxLiveSize : IsCompare(Variant(file, mode)) => IsSquare(n)}
    /\ num_threads \in 1 .. MaxLiveThreads
    /\ team \in 1 .. num_threads
    /\ stride = MainStride
    /\ array = (IF IsCompare(Variant(file, mode)) THEN initialize_A(size)
                ELSE load_array(size))
    /\ B = (IF IsCompare(Variant(file, mode)) THEN initialize_B(size) ELSE <<>>)
    /\ shuffled_indices \in (IF IsPermuted(Variant(file, mode))
                              THEN IndexPermutations(size) ELSE {<<>>})
    /\ owner \in (IF IsWorkShared(Variant(file, mode))
                   THEN [0 .. size - 1 -> 0 .. team - 1] ELSE {<<>>})

InitLive == LiveInputsOK /\ EntryState

\* the result is printed, the buffers are freed, return EXIT_SUCCESS
MainReturn ==
    /\ pc = "done"
    /\ status' = 0
    /\ pc' = "exit"
    /\ UNCHANGED <<inputs, matrixVars, shuffleVars, trace, nulls, base, partial_sums,
                   wpc, wi, total, ri, writers, visits>>

\* the next step of thread t inside the parallel region
WorkerStep(t) == WorkerEnter(t) \/ WorkerIter(t) \/ WorkerExit(t)

NextLive ==
    \/ Next
    \/ MainReturn

SpecLive == InitLive /\ [][NextLive]_vars /\ WF_vars(NextLive)

(***************************************************************************)
(* The claims.                                                             *)
(***************************************************************************)
\* the positions [start_t, end_t) thread t computes for itself
Range(t) == ChunkStart(t, size, num_threads) .. ChunkEnd(t, size, num_threads) - 1

RECURSIVE SumOfLengths(_)
SumOfLengths(t) ==
    IF t < 0 THEN 0
    ELSE SumOfLengths(t - 1)
            + (ChunkEnd(t, size, num_threads) - ChunkStart(t, size, num_threads))

\* C1: the ranges [start_t, end_t) of the num_threads partition-based workers are
\* pairwise disjoint, their union is [0, size) and their lengths add up to size.
C1_PartitionCoverage ==
    IsPartitioned(Args) =>
        /\ \A t, u \in 0 .. num_threads - 1 : t # u => Range(t) \cap Range(u) = {}
        /\ UNION {Range(t) : t \in 0 .. num_threads - 1} = 0 .. size - 1
        /\ SumOfLengths(num_threads - 1) = size

\* a partition-based call has returned whose last range took a remainder
C1_Witness ==
    /\ pc = "done"
    /\ IsPartitioned(Args)
    /\ num_threads > 1
    /\ size > num_threads
    /\ size % num_threads # 0

\* C2: whatever the interleaving, every slot has been written by no worker other
\* than the one whose thread number is the slot's index.
C2_SingleWriterPerSlot ==
    \A s \in 0 .. num_threads - 1 : writers[SlotOffset(Args, s)] \subseteq {s}

\* two workers of a packed-slot region have both written, the region still running
C2_Witness ==
    /\ pc = "parallel"
    /\ IsPacked(Args)
    /\ \E s, u \in 0 .. num_threads - 1 :
          /\ s # u
          /\ writers[SlotOffset(Args, s)] # {}
          /\ writers[SlotOffset(Args, u)] # {}

\* sum_good, sum_bad_fs, the permuted sum_bad_ma, and the strided sum_bad_ma with a
\* stride coprime with size
IsCheckedSum ==
    /\ file \in {"array_sum_memory_access_28", "matrix_init_access_variation_29"}
    /\ IsStrided(Args) => Euclid(stride, size) = 1

Gauss(n) == (n * (n + 1)) \div 2

\* C3, as stated: each of these sum modes returns size * (size + 1) / 2.
C3_SumIsGauss == (pc = "done" /\ IsCheckedSum) => total = Gauss(size)

\* C3, amended: each of these sum modes returns size * (size + 1) / 2 reduced modulo
\* 2^w, w the width of unsigned long.
C3_SumIsGaussModWord == (pc = "done" /\ IsCheckedSum) => total = Gauss(size) % ULONG_MOD

\* a strided sum with a coprime stride above 1 has returned a total that wrapped
C3_Witness ==
    /\ pc = "done"
    /\ IsStrided(Args)
    /\ stride > 1
    /\ Euclid(stride, size) = 1
    /\ num_threads > 1
    /\ Gauss(size) >= ULONG_MOD

\* C4: what the padded-slot mode returns is what the packed-slot mode returns on the
\* same dataset, size and worker count.
C4_LayoutEquivalence ==
    (pc = "done" /\ IsPartitioned(Args) /\ mode = "good") =>
        total = ModeFunction([Args EXCEPT !.mode = "bad-fs"])

\* a padded-slot call with several workers has returned a non-zero result
C4_Witness ==
    /\ pc = "done"
    /\ IsPartitioned(Args)
    /\ mode = "good"
    /\ num_threads > 1
    /\ size > num_threads
    /\ total > 0

\* C5: in each mode of the matrix-initialisation program, when the mode function
\* returns every element a[i][j], 0 <= i, j < N, has been written exactly once.
C5_EveryElementWrittenOnce ==
    pc = "done" => \A c \in Cells : Len(awrites[c]) = 1

\* C6: in each mode of the matrix-initialisation program, no element of the matrix
\* has been written by two different workers, whatever the interleaving.
C6_DisjointWriteSets ==
    \A c \in DOMAIN awrites :
        \A k, l \in 1 .. Len(awrites[c]) : awrites[c][k] = awrites[c][l]

\* in bad_fs_mode two workers have both written elements, the loop still running
C6_Witness ==
    /\ pc = "parallel"
    /\ mode = "bad-fs"
    /\ \E c, d \in DOMAIN awrites :
          /\ awrites[c] # <<>>
          /\ awrites[d] # <<>>
          /\ awrites[c][1] # awrites[d][1]

\* C7: the shuffle touches no position outside the array, and once it has returned
\* the sequence holds every integer of [0, size) exactly once.
C7_ShuffleIsBijection ==
    /\ ~oob
    /\ pc = "done" =>
          /\ DOMAIN shuffled_indices = 0 .. size - 1
          /\ \A v \in 0 .. size - 1 :
                Cardinality({k \in 0 .. size - 1 : shuffled_indices[k] = v}) = 1

\* the indices the workers of the region have read, and how often each was read
IndicesRead == UNION {{visits[t][k] : k \in 1 .. Len(visits[t])} : t \in Workers}

RECURSIVE TimesReadUpTo(_, _)
TimesReadUpTo(idx, t) ==
    IF t < 0 THEN 0
    ELSE TimesReadUpTo(idx, t - 1)
            + Cardinality({k \in 1 .. Len(visits[t]) : visits[t][k] = idx})

TimesRead(idx) == TimesReadUpTo(idx, team - 1)

\* C8: in the strided mode, with gcd(stride, size) = 1 every index of [0, size) is
\* read exactly once in total; otherwise size / gcd(stride, size) distinct indices
\* are read, fewer than size.
C8_StrideCoverage ==
    (pc = "done" /\ IsStrided(Args) /\ team = num_threads) =>
        IF Euclid(stride, size) = 1
        THEN \A idx \in 0 .. size - 1 : TimesRead(idx) = 1
        ELSE /\ Cardinality(IndicesRead) = size \div Euclid(stride, size)
             /\ Cardinality(IndicesRead) < size

\* a strided call with several workers and a stride sharing a factor with size,
\* neither dividing the other away, has returned
C8_Witness ==
    /\ pc = "done"
    /\ IsStrided(Args)
    /\ team = num_threads
    /\ num_threads > 1
    /\ Euclid(stride, size) > 1
    /\ Euclid(stride, size) < size

\* C9: each compare mode returns floor((M - 1) / 1000) + 1 on the matrices of
\* initialize_matrices, M their element count.
C9_MismatchCount ==
    (pc = "done" /\ IsCompare(Args)) => total = ((size - 1) \div 1000) + 1

\* the permuted compare has returned over more than 1000 elements, several workers
C9_Witness ==
    /\ pc = "done"
    /\ IsCompare(Args)
    /\ mode = "bad-ma"
    /\ size > 1000
    /\ num_threads > 1

\* the same call with T workers (a work-sharing loop hands its iterations out in blocks)
WithThreads(r, T) ==
    [r EXCEPT !.num_threads = T, !.team = T,
              !.owner = IF IsWorkShared(r)
                        THEN [i \in 0 .. r.size - 1 |-> i \div ((r.size + T - 1) \div T)]
                        ELSE r.owner]

\* C10: for the input and mode of a call, whatever its worker count, the result
\* returned is the one the call returns with a single worker: the results with 1, 2,
\* 4 and 8 workers are the same.
C10_ThreadCountInvariance ==
    pc = "done" => total = ModeFunction(WithThreads(Args, 1))

\* a call with more workers than elements has returned
C10_Witness ==
    /\ pc = "done"
    /\ num_threads = 8
    /\ size > 1
    /\ size < num_threads
    /\ total > 0

\* the slot values added up in unsigned long arithmetic, slots 0 .. n - 1
RECURSIVE SlotSum(_)
SlotSum(n) ==
    IF n = 0 THEN 0 ELSE Wrap(SlotSum(n - 1) + SlotRead(Args, partial_sums, n - 1))

\* C11: the aggregation starts only once every worker of the team has finished
\* its loop and waits at the closing barrier; from then on no slot changes; and the
\* scalar returned is the sum, in unsigned long arithmetic, of the final slot values.
C11_ReduceAfterBarrier ==
    /\ [](pc \in {"reduce", "done"} => \A t \in Workers : wpc[t] = "barrier")
    /\ [](pc = "done" => total = SlotSum(SlotCount(Args)))
    /\ [][(pc = "reduce" \/ pc = "done") => UNCHANGED partial_sums]_vars

\* the aggregation has read the first of several slots that workers wrote
C11_Witness ==
    /\ pc = "reduce"
    /\ ri = 1
    /\ team > 1
    /\ \A s \in 0 .. team - 1 : writers[SlotOffset(Args, s)] # {}

\* the invocation carries a zero size, a non-positive thread count or an unknown mode
BadArguments == size = 0 \/ num_threads <= 0 \/ mode \notin Modes

\* C12: a program that takes <mode> <size> <threads>, run with size = 0, with
\* threads <= 0 or with an unrecognised mode, never enters a parallel region and
\* ends with a non-zero exit status.
C12_BadArgumentsRejected ==
    (~IsSequential(file) /\ BadArguments) =>
        /\ ~InTrace("region")
        /\ pc = "exit" => status # 0

\* C13: on a run that rejects its arguments, no allocation and no timer reading
\* comes before the rejection.
C13_RejectedBeforeAllocation ==
    InTrace("reject") => ~InTrace("alloc") /\ ~InTrace("time_start")

\* C14: once a malloc has returned NULL, no thread writes through the null pointer,
\* no parallel region is entered, and the process ends with the failure reported
\* and a non-zero status.
C14_AllocationFailureStops ==
    InTrace("null") =>
        /\ ~InTrace("null_write")
        /\ ~InTrace("region")
        /\ pc = "exit" => (status = 1 /\ InTrace("alloc_failed"))

\* the greatest common divisor, from its definition
Divides(d, n) == n % d = 0

Gcd(m, n) ==
    CHOOSE d \in 1 .. m :
        /\ Divides(d, m) /\ Divides(d, n)
        /\ \A c \in 1 .. m : (Divides(c, m) /\ Divides(c, n)) => c <= d

\* C15: in the strided sum_bad_ma the Euclid loop leaves gcd(stride, size), the
\* warning is printed exactly when that is not 1, and with or without the warning
\* the call goes on through the region and the aggregation to its report.
C15_WarningIffNotCoprime ==
    /\ []((IsStrided(Args) /\ InTrace("init"))
            => Euclid(stride, size) = Gcd(stride, size))
    /\ []((IsStrided(Args) /\ pc \in {"fn_alloc", "parallel", "reduce", "report"})
            => (InTrace("warn") <=> Gcd(stride, size) # 1))
    /\ ((IsStrided(Args) /\ pc = "fn_alloc" /\ "slots" \notin nulls)
            ~> (pc = "exit" /\ status = 0 /\ InTrace("region") /\ InTrace("reduce")
                  /\ InTrace("report")))

\* a strided call that warned has gone through its region and aggregation and returned
C15_Witness ==
    /\ IsStrided(Args)
    /\ InTrace("warn")
    /\ InTrace("region")
    /\ InTrace("reduce")
    /\ pc = "exit"
    /\ status = 0
    /\ num_threads > 1

\* the cache lines that hold a byte of slot s
LinesOf(s) ==
    {(base + SlotOffset(Args, s) + k) \div CACHE_LINE_SIZE : k \in 0 .. SlotBytes(Args) - 1}

\* the padded slots of a mode function have been allocated
PaddedAllocated ==
    /\ file \in Files
    /\ ~IsWorkShared(Args)
    /\ ~IsPacked(Args)
    /\ InTrace("init_slots")

\* C16: in the padded layout, whatever address malloc returned, no cache line holds
\* bytes of the slots of two different workers.
C16_SlotsInDistinctLines ==
    PaddedAllocated =>
        \A s, u \in 0 .. num_threads - 1 : s # u => LinesOf(s) \cap LinesOf(u) = {}

\* position k of the trace lies after a start-time reading whose end-time reading
\* has not come yet
Timed(k) ==
    \E i \in 1 .. k - 1 :
        /\ trace[i] = "time_start"
        /\ \A m \in i + 1 .. k - 1 : trace[m] # "time_end"

\* C17: no allocation and no initialisation follows a start-time reading; between a
\* start-time reading and its end-time reading there is only the region, the
\* aggregation or the sequential loop; and the end-time reading comes directly
\* after the aggregation (the region or the loop where there is no aggregation).
C17_TimerBracketsRegionAndReduce ==
    \A k \in 1 .. Len(trace) :
        /\ InTrace("time_start") /\ (\E i \in 1 .. k - 1 : trace[i] = "time_start")
              => trace[k] \notin {"alloc", "init", "init_slots"}
        /\ (Timed(k) /\ trace[k] # "time_end")
              => trace[k] \in {"region", "reduce", "loop", "null_write", "stray_write"}
        /\ (trace[k] = "time_end" /\ k > 1)
              => trace[k - 1] \in {"reduce", "loop"}
                    \/ (IsMatrixInit(file) /\ trace[k - 1] = "region")

\* the dataset main handed to the mode function
DatasetAtCall == IF IsCompare(Args) THEN initialize_A(size) ELSE load_array(size)

\* C18: no step taken while the parallel region runs changes array (A), B or
\* shuffled_indices, and the dataset after the region is the one main built.
C18_InputsReadOnly ==
    /\ [][pc = "parallel" => UNCHANGED <<array, B, shuffled_indices>>]_vars
    /\ [](array = DatasetAtCall)
    /\ [](IsCompare(Args) => B = initialize_B(size))

\* the region of a permuted compare has ended, every one of several workers having
\* read elements
C18_Witness ==
    /\ pc = "reduce"
    /\ IsCompare(Args)
    /\ IsPermuted(Args)
    /\ team > 1
    /\ \A t \in Workers : visits[t] # <<>>

\* C19: in the partition-based modes run by a full team of T workers, with
\* base = N / T each worker 0 .. T-2 has processed base elements and worker T-1
\* has processed N - base * (T-1); when N < T workers 0 .. T-2 have processed
\* nothing and worker T-1 the whole of [0, N).
C19_RemainderToLastWorker ==
    (pc \in {"reduce", "done"} /\ IsPartitioned(Args) /\ team = num_threads) =>
        /\ \A t \in 0 .. num_threads - 2 : Len(visits[t]) = size \div num_threads
        /\ Len(visits[num_threads - 1])
              = size - (size \div num_threads) * (num_threads - 1)
        /\ size < num_threads =>
              /\ \A t \in 0 .. num_threads - 2 : visits[t] = <<>>
              /\ {visits[num_threads - 1][k] : k \in 1 .. size} = 0 .. size - 1

\* a partition-based call has returned in which the last worker processed more
\* elements than the first, and the first processed some
C19_Witness ==
    /\ pc = "done"
    /\ IsPartitioned(Args)
    /\ team = num_threads
    /\ num_threads > 1
    /\ Len(visits[0]) > 0
    /\ Len(visits[num_threads - 1]) > Len(visits[0])

\* C20: on a sequence of length 0 or 1 the shuffle does nothing: its loop counter
\* starts at 0, no iteration runs, no position is touched, the sequence is as it was.
C20_ShuffleNoOpBelowTwo ==
    size <= 1 =>
        /\ pc # "call" => si = 0
        /\ pc # "fault"
        /\ ~oob
        /\ shuffled_indices = [i \in 0 .. size - 1 |-> i]

\* C21: for every worker, the positions it visits in bad-fs mode, in order, are the
\* positions it visits in good mode (same input, thread count and schedule).
C21_SameTraversalInBadFs ==
    (pc = "done" /\ mode = "bad-fs") =>
        \A t \in Workers : visits[t] = MatrixVisits([Args EXCEPT !.mode = "good"], t)

\* C22: in bad-ma mode of the array_sum_false_sharing_sim program the array is
\* traversed with a stride: when a worker runs two iterations or more, the order
\* of the positions some worker visits is not the contiguous order of good mode.
C22_SimBadMaIsStrided ==
    (/\ pc = "done"
     /\ IsWorkShared(Args)
     /\ mode = "bad-ma"
     /\ \E t \in Workers : Len(visits[t]) >= 2) =>
        \E t \in Workers : visits[t] # WorkerVisits([Args EXCEPT !.mode = "good"], t)

\* C23: in the sequential program, sum_strided over an array of length N holding
\* value[i] = i + 1, with a stride coprime with N (the program passes 5), returns
\* N(N+1)/2.
C23_StridedSumIsGauss ==
    (/\ IsSequential(file)
     /\ mode = "bad"
     /\ pc = "exit"
     /\ status = 0
     /\ Gcd(SeqStride, size) = 1) => total = Gauss(size)

\* C24: after initialize_matrices returns, A[i] = i mod 100 for every i < size, and
\* B[i] = A[i] + 1 when i mod 1000 = 0 and B[i] = A[i] otherwise; under every
\* interleaving the second loop reads A[i] only after the first loop has written it.
C24_InitializeMatrices ==
    /\ ~InTrace("uninit_read")
    /\ pc = "returned" =>
        \A i \in 0 .. size - 1 :
            /\ array[i] = i % ValueModulus
            /\ B[i] = (IF i % DiffPeriod = 0 THEN array[i] + 1 ELSE array[i])

\* a run has returned in which a thread diverged an element another thread filled
C24_Witness ==
    /\ pc = "returned"
    /\ size > DiffPeriod
    /\ \E t, u \in Workers :
        /\ t # u
        /\ \E k \in StaticLo(DivergeCount(size), team, t) ..
                    StaticLo(DivergeCount(size), team, t + 1) - 1 :
            k * DiffPeriod \in StaticLo(size, team, u) .. StaticLo(size, team, u + 1) - 1

\* the sum, in the integers, of what thread tid's loop adds from loop counter i on
RECURSIVE VisitedSumFrom(_, _, _, _)
VisitedSumFrom(r, tid, i, acc) ==
    IF ~LoopCond(r, tid, i) THEN acc
    ELSE CHOOSE v \in {VisitedSumFrom(r, tid, n, s) :
                        n \in {LoopNext(r, tid, i)},
                        s \in {acc + Delta(r, ElemIdx(r, i))}} : TRUE

\* the sum, in the integers, of the elements thread tid visits
VisitedSum(r, tid) == VisitedSumFrom(r, tid, LoopInit(r, tid), 0)

\* the sum, in the integers, of the elements threads 0 .. t visit
RECURSIVE VisitedTotalUpTo(_, _)
VisitedTotalUpTo(r, t) ==
    IF t < 0 THEN 0 ELSE VisitedTotalUpTo(r, t - 1) + VisitedSum(r, t)

\* C25: with w-bit unsigned arithmetic the reduced sum of a sum program is the sum
\* of all visited elements modulo 2^w, for every worker count and every partition,
\* also when a per-worker partial sum or the running total wraps around.
C25_SumModuloWord ==
    (pc = "done" /\ ~IsCompare(Args)) =>
        total = VisitedTotalUpTo(Args, team - 1) % ULONG_MOD

\* a sum has been reduced in which a worker's partial sum wrapped around, and the
\* running total of several workers did too
C25_Witness ==
    /\ pc = "done"
    /\ ~IsCompare(Args)
    /\ num_threads > 1
    /\ \E t \in Workers : VisitedSum(Args, t) >= ULONG_MOD
    /\ VisitedTotalUpTo(Args, team - 1) >= 2 * ULONG_MOD
    /\ total = VisitedTotalUpTo(Args, team - 1) % ULONG_MOD

\* C26: in the partition-based modes coverage does not depend on how many workers
\* the runtime starts: for any team size K with 1 <= K <= num_threads every index
\* of [0, N) is processed exactly once and the result is that of a full team.
C26_CoverageForAnyTeam ==
    (pc = "done" /\ IsPartitioned(Args)) =>
        /\ \A idx \in 0 .. size - 1 : TimesRead(idx) = 1
        /\ total = ModeFunction([Args EXCEPT !.team = num_threads])

\* C27: in the matrix-initialisation program, for every mode, every N > 17 and
\* every threads >= 1, the element a[17][17] main reads for its report has been
\* written by some worker before it is read, and its value is 17.
C27_ReportedElementIsFilled ==
    (pc = "exit" /\ size > ReportIndex) =>
        /\ ~InTrace("uninit_read")
        /\ total = FillValue

\* inside the region a thread that has not reached the closing barrier can take
\* its next step, whatever the other threads have done
NoWorkerWaits ==
    pc = "parallel" =>
        \A t \in Workers : wpc[t] \in {"idle", "loop"} => ENABLED WorkerStep(t)

\* C28: in every valid run whose allocations succeed every worker eventually
\* finishes its slice, the barrier is eventually passed, the reduction completes
\* and the run ends with exit status 0; no worker waits on another worker before
\* the closing barrier.
C28_RunTerminates ==
    /\ <>AllAtBarrier
    /\ <>(pc = "reduce")
    /\ <>(pc = "done" /\ ri = SlotCount(Args))
    /\ <>[](pc = "exit" /\ status = 0)
    /\ []NoWorkerWaits

\* a run of several threads has ended with status 0 after each had run iterations
C28_Witness ==
    /\ pc = "exit"
    /\ status = 0
    /\ team > 1
    /\ \A t \in Workers : wpc[t] = "barrier" /\ Len(visits[t]) >= 1

====
